---------------------------- MODULE Spec2Model ----------------------------
(***************************************************************************)
(* Model of the rating / rolling-statistics pipeline of                    *)
(* EnhancedPLPredictor (src/pl_predictor.py) and of LiveMatchService       *)
(* (src/backend/websocket_manager.py).                                     *)
(*                                                                         *)
(* Floating-point quantities are carried in fixed point: ratings in        *)
(* 1/RatingScale rating points, the expected score in 1/RatingScale, the   *)
(* power 10**x in 1/PowScale.  Rolling means are kept as exact fractions   *)
(* [num, den]; den = 0 is pandas' NaN.  Rounding of the last bit of an     *)
(* IEEE double is therefore outside this model.                            *)
(***************************************************************************)
EXTENDS Integers, Sequences, FiniteSets, TLC

VARIABLES
    \* ---- EnhancedPLPredictor (src/pl_predictor.py) ----
    matches,            \* self.matches: the data frame, a sequence of rows
    ppc,                \* position in create_enhanced_features
    team_ratings,       \* team_ratings dict of create_team_strength_features
    ratings_list,       \* ratings_list
    opp_ratings_list,   \* opp_ratings_list
    idx,                \* number of rows the iterrows loop has processed
    writes,             \* history: per team, the dates at which its rating was stored
    twin,               \* a second run of the same pipeline on a perturbed log
    perturbed,          \* history: fixture/team of the row perturbed in the twin's log
    ingested,           \* history: self.matches as load_and_preprocess_data left it
    predicted,          \* what the last predict_match_probability call returned
    \* ---- LiveMatchService (src/backend/websocket_manager.py) ----
    objs,               \* the LiveMatchUpdate objects ever created, by object id
    live_matches,       \* self.live_matches: match id -> object id (0: no entry)
    match_predictions,  \* self.match_predictions: match id -> PredictionUpdate
    update_tasks,       \* self.update_tasks: match id -> task id (0: no entry)
    tasks,              \* the _simulate_live_match_updates tasks ever created
    pending,            \* per match id, update_match_score calls awaiting their broadcast
    stopping,           \* per match id, the object a stop_live_match call is about to drop
    ncalls,             \* number of external update_match_score calls made
    ngoals,             \* number of goals the simulators have drawn
    last_update,        \* history: the update_match_score or stop_live_match call of
                        \* the last step, if any
    status_log,         \* history: per object, the statuses it has taken
    \* ---- what the service is built on ----
    topic_subscribers,  \* ConnectionManager: connections subscribed to "live_matches"
    sending,            \* per match id, update_match_score calls waiting in a send_text
    redis_client,       \* whether the service was constructed with a Redis client
    \* ---- the HTTP applications (main.py, realtime_main.py) ----
    predictor,          \* main.predictor is not None
    serving,            \* the startup event has returned: requests are handled
    response,           \* the response to the last request
    published,          \* events the handlers passed to message_queue.publish
    \* ---- MessageQueue (message_queue.py) ----
    queue_redis,        \* message_queue.redis_client is not None
    handlers,           \* handlers[EventType.MATCH_UPDATED]: the registered handlers
    queue,              \* the Redis list events:match_updated, oldest event first
    events,             \* the Event objects, in publication order, with their progress
    dead_letter_queue,  \* ids of the events given up
    metrics,            \* events_published, events_processed, events_failed
    cache,              \* the cache entry match:{id} the match handler writes
    \* ---- ABTestingFramework (ab_testing.py) ----
    clock,              \* datetime.now(), in seconds
    experiments,        \* experiments: per id, the Experiment or NoExperiment
    results_cache,      \* results_cache: per id, the recorded predictions
    created,            \* history: the last create_experiment call
    \* ---- ConnectionManager (websocket_manager.py), all topics ----
    active_connections,     \* the keys of active_connections
    user_subscriptions,     \* connection id -> set of topics
    topic_subscriber_sets,  \* topic_subscribers: topic -> set of connection ids
    connection_metadata,    \* connection id -> metadata
    issued,                 \* connection ids uuid4 has handed out
    in_flight,              \* connections a send_personal_message call awaits send_text of
    broadcasting            \* the rest of the copy a broadcast_to_topic call iterates over

pvars == <<matches, ppc, team_ratings, ratings_list, opp_ratings_list, idx,
           writes, twin, perturbed, ingested, predicted>>

lvars == <<objs, live_matches, match_predictions, update_tasks, tasks, pending,
           stopping, ncalls, ngoals, last_update, status_log>>

cvars == <<topic_subscribers, sending, redis_client>>

avars == <<predictor, serving, response, published>>

\* the components beside the pipeline and the live match service
qvars == <<queue_redis, handlers, queue, events, dead_letter_queue, metrics, cache>>

evars == <<clock, experiments, results_cache, created>>

mvars == <<active_connections, user_subscriptions, topic_subscriber_sets,
           connection_metadata, issued, in_flight, broadcasting>>

xvars == <<avars, qvars, evars, mvars>>

vars == <<pvars, lvars, cvars, xvars>>

-----------------------------------------------------------------------------
(* Bounds of the model *)

MaxFixtures == 2        \* fixtures in a log of the pipeline specification
MaxRows == 12           \* rows of the one-team log of the rolling specification
MaxStarts == 1          \* start_live_match calls
MaxCalls == 1           \* external update_match_score calls
MaxGoals == 1           \* goals drawn by the simulators
MaxScore == 5           \* scores of the states the probability specification starts in
ApiFixtures == 1        \* fixtures in the log the HTTP application loads
MaxEvents == 2          \* events published to the message queue
MaxHandlers == 2        \* handlers registered for the event type
MaxClock == 2           \* seconds the clock of the A/B testing framework advances
MaxPredictions == 1     \* predictions recorded per experiment
MaxConnections == 2     \* WebSocket connections accepted

(* Program constants *)

initial_rating == 1500
k_factor == 32
max_retries == 3
num_consumers == 3

RatingScale == 10 * 100     \* fixed-point units per rating point / per unit of score
PowScale == 2 ^ 12          \* fixed-point units of 10**x

Teams == {"A", "B", "C"}
LeakTeams == {"A", "B"}             \* the teams of the two-run specification
TeamOrder == <<"A", "B", "C">>      \* sorted group keys of groupby("team")
Results == {"W", "D", "L"}
Scorelines == {<<1, 0>>, <<0, 1>>, <<1, 1>>}    \* (gf, ga) of a fixture's first row
windows == <<3, 5, 10>>
base_cols == <<"gf", "ga">>

-----------------------------------------------------------------------------
(* Generic helpers *)

RECURSIVE SumSeq(_)
SumSeq(s) == IF s = <<>> THEN 0 ELSE Head(s) + SumSeq(Tail(s))

RECURSIVE Concat(_)
Concat(ss) == IF ss = <<>> THEN <<>> ELSE Head(ss) \o Concat(Tail(ss))

Max(a, b) == IF a >= b THEN a ELSE b
Min(a, b) == IF a <= b THEN a ELSE b
Clip(x, lo, hi) == Max(lo, Min(x, hi))

\* a / b rounded to the nearest integer, for a >= 0 and b > 0
RoundDiv(a, b) == (2 * a + b) \div (2 * b)

NaN == [num |-> 0, den |-> 0]
IsNaN(f) == f.den = 0

-----------------------------------------------------------------------------
(* The match log *)

ResultOf(gf, ga) == IF gf > ga THEN "W" ELSE IF gf = ga THEN "D" ELSE "L"

Row(fx, d, t, o, gf, ga) ==
    [fixture |-> fx, date |-> d, team |-> t, opponent |-> o,
     result |-> ResultOf(gf, ga), gf |-> gf, ga |-> ga]

\* One fixture is stored as two rows, one per side.
FixtureRows(fx, d, t, o, sc) ==
    << Row(fx, d, t, o, sc[1], sc[2]), Row(fx, d, o, t, sc[2], sc[1]) >>

Pairs(teams) == { p \in teams \X teams : p[1] # p[2] }

\* What is drawn for one fixture: the two sides, the score of the first side, and
\* whether it is played on the date of the previous fixture (0) or the next one (1).
FixtureChoices(teams) == Pairs(teams) \X Scorelines \X {0, 1}

RECURSIVE DateOf(_, _)
DateOf(f, k) == IF k = 1 THEN 1 ELSE DateOf(f, k - 1) + f[k][3]

\* The date-sorted log of the fixtures f[1], ..., f[n]
BuildLog(f) ==
    Concat([k \in DOMAIN f |-> FixtureRows(k, DateOf(f, k), f[k][1][1], f[k][1][2], f[k][2])])

-----------------------------------------------------------------------------
(* create_rolling_features *)

WindowSet == { windows[k] : k \in 1..Len(windows) }
RollCols == {"gf", "ga", "gd", "win_rate"}

\* self.matches["target"] = (self.matches["result"] == "W").astype(int)
Target(row) == IF row.result = "W" THEN 1 ELSE 0

\* Stable sort of a frame by its date column.
SortByDate(s) ==
    LET SameDate(d) == SelectSeq(s, LAMBDA r : r.date = d)
        maxd == IF s = <<>> THEN 0
                ELSE CHOOSE d \in { s[k].date : k \in 1..Len(s) } :
                        \A k \in 1..Len(s) : s[k].date <= d
    IN  Concat([d \in 1..maxd |-> SameDate(d)])

\* A window that never drops its oldest row
WindowBoundsExpanding(i0, window, num_values, closed) ==
    [start |-> 0, end |-> Clip(i0, 0, num_values)]

\* Bounds [start, end) (0-based) of the fixed window of the row at 0-based
\* position i0, as rolling(window, closed=...) lays them out over num_values rows.
WindowBounds(i0, window, num_values, closed) ==
    LET end0 == i0 + 1
        start0 == end0 - window
        start1 == IF closed \in {"left", "both"} THEN start0 - 1 ELSE start0
        end1 == IF closed \in {"left", "neither"} THEN end0 - 1 ELSE end0
    IN  [start |-> Clip(start1, 0, num_values), end |-> Clip(end1, 0, num_values)]

\* The same window under rolling's default closed='right': it holds row i itself.
RollingRight(vals, i, window) ==
    LET b == WindowBounds(i - 1, window, Len(vals), "right")
    IN  SubSeq(vals, b.start + 1, b.end)

\* group[col].rolling(window, closed='left', min_periods=1), row i (1-based):
\* the values the window of row i holds.
RollingLeft(vals, i, window) ==
    LET b == WindowBounds(i - 1, window, Len(vals), "left")
    IN  SubSeq(vals, b.start + 1, b.end)

\* .mean() of a window under min_periods=1
Mean(win) ==
    IF Len(win) < 1 THEN NaN ELSE [num |-> SumSeq(win), den |-> Len(win)]

\* mean(a) - mean(b) of two windows of the same rows
MeanDiff(wa, wb) ==
    IF IsNaN(Mean(wa)) \/ IsNaN(Mean(wb)) THEN NaN
    ELSE [num |-> SumSeq(wa) - SumSeq(wb), den |-> Len(wa)]

Column(group, col) ==
    [k \in 1..Len(group) |->
        IF col = "gf" THEN group[k].gf
        ELSE IF col = "ga" THEN group[k].ga
        ELSE Target(group[k])]

\* The rolling columns of row i of a group whose gf, ga and target columns are given
RollingColumns(gf, ga, target, i) ==
    [c \in RollCols \X WindowSet |->
        IF c[1] = "gf" THEN Mean(RollingLeft(gf, i, c[2]))
        ELSE IF c[1] = "ga" THEN Mean(RollingLeft(ga, i, c[2]))
        ELSE IF c[1] = "gd" THEN MeanDiff(RollingLeft(gf, i, c[2]), RollingLeft(ga, i, c[2]))
        ELSE Mean(RollingLeft(target, i, c[2]))]

WithRolling(group, gf, ga, target) ==
    [i \in 1..Len(group) |->
        [fixture |-> group[i].fixture, date |-> group[i].date,
         team |-> group[i].team, opponent |-> group[i].opponent,
         result |-> group[i].result, gf |-> group[i].gf, ga |-> group[i].ga,
         rolling |-> RollingColumns(gf, ga, target, i)]]

SortedGroupRolling(group) ==
    WithRolling(group, Column(group, "gf"), Column(group, "ga"), Column(group, "target"))

enhanced_rolling_averages(group0) == SortedGroupRolling(SortByDate(group0))

\* self.matches.groupby("team").apply(...), index reset
create_rolling_features(m) ==
    Concat([k \in 1..Len(TeamOrder) |->
        enhanced_rolling_averages(SelectSeq(m, LAMBDA r : r.team = TeamOrder[k]))])

-----------------------------------------------------------------------------
(* create_team_strength_features *)

\* Rating units in which 10**(x/400) gains one decade
Decade == 400 * RatingScale

\* 10**(d/Decade) for d = Decade/2, Decade/4, ... in 1/PowScale
PowTable ==
    << <<200000, 12953>>, <<100000, 7284>>, <<50000, 5462>>, <<25000, 4730>>,
       <<12500, 4402>>, <<6250, 4246>>, <<3125, 4170>> >>

\* Decade / ln(10): 10**(r/Decade) ~ 1 + r/LnDen for small r
LnDen == 173718

RECURSIVE PowFrac(_, _, _)
PowFrac(r, k, acc) ==
    IF k > Len(PowTable) THEN acc + RoundDiv(acc * r, LnDen)
    ELSE IF r >= PowTable[k][1]
         THEN PowFrac(r - PowTable[k][1], k + 1, RoundDiv(acc * PowTable[k][2], PowScale))
         ELSE PowFrac(r, k + 1, acc)

\* 10 ** (r / 400) for a rating difference r >= 0, in 1/PowScale
Pow10(r) ==
    IF r >= 4 * Decade THEN (10 ^ 4) * PowScale
    ELSE PowFrac(r % Decade, 1, PowScale) * (10 ^ (r \div Decade))

\* expected_team = 1 / (1 + 10**((opp_rating - team_rating) / 400)), in 1/RatingScale
Expected(opp_rating, team_rating) ==
    LET d == opp_rating - team_rating
    IN  IF d >= 0
        THEN RoundDiv(RatingScale * PowScale, PowScale + Pow10(d))
        ELSE RatingScale - RoundDiv(RatingScale * PowScale, PowScale + Pow10(-d))

\* actual_team, in 1/RatingScale
Actual(result) ==
    IF result = "W" THEN RatingScale
    ELSE IF result = "D" THEN RatingScale \div 2
    ELSE 0

\* The team moved against its result
NewTeamRatingReversed(team_rating, opp_rating, result) ==
    team_rating - k_factor * (Actual(result) - Expected(opp_rating, team_rating))

NewTeamRating(team_rating, opp_rating, result) ==
    team_rating + k_factor * (Actual(result) - Expected(opp_rating, team_rating))

\* The opponent credited with the team's own score instead of its complement
NewOppRatingSameSide(team_rating, opp_rating, result) ==
    opp_rating + k_factor * (Actual(result)
                             - (RatingScale - Expected(opp_rating, team_rating)))

NewOppRating(team_rating, opp_rating, result) ==
    opp_rating + k_factor * ((RatingScale - Actual(result))
                             - (RatingScale - Expected(opp_rating, team_rating)))

\* all_teams = set(team) | set(opponent)
AllTeams(m) ==
    { m[k].team : k \in 1..Len(m) } \cup { m[k].opponent : k \in 1..Len(m) }

\* The ratings a row's iteration reads (the values appended to the two lists).
ReadRatings(tr, row) ==
    [team_rating |-> tr[row.team], opp_rating |-> tr[row.opponent]]

\* The rating store after a row's iteration: team first, then opponent.
StoreRatings(tr, row) ==
    LET rd == ReadRatings(tr, row)
        t1 == [tr EXCEPT ![row.team] =
                  NewTeamRating(rd.team_rating, rd.opp_rating, row.result)]
    IN  [t1 EXCEPT ![row.opponent] =
                  NewOppRating(rd.team_rating, rd.opp_rating, row.result)]

\* matches["team_rating"], ["opp_rating"], ["rating_diff"]
WithRatings(m, rl, ol) ==
    [k \in 1..Len(m) |->
        [fixture |-> m[k].fixture, date |-> m[k].date, team |-> m[k].team,
         opponent |-> m[k].opponent, result |-> m[k].result,
         gf |-> m[k].gf, ga |-> m[k].ga, rolling |-> m[k].rolling,
         team_rating |-> rl[k], opp_rating |-> ol[k],
         rating_diff |-> rl[k] - ol[k]]]

-----------------------------------------------------------------------------
(* predict_match_probability *)

NoResult == [set |-> FALSE]

\* team_data.tail(5)["team_rating"].iloc[-1], or 1500 for a team without rows
LastTeamRating(m, team) ==
    LET team_data == SelectSeq(m, LAMBDA r : r.team = team)
    IN  IF team_data = <<>> THEN initial_rating * RatingScale
        ELSE team_data[Len(team_data)].team_rating

\* The dict predict_match_probability returns, in 1/RatingScale
predict_match_probability(m, team, opponent) ==
    LET team_rating == LastTeamRating(m, team)
        opp_rating == LastTeamRating(m, opponent)
        rating_diff == team_rating - opp_rating
        win_prob == Expected(0, rating_diff)
    IN  [set |-> TRUE, team |-> team, opponent |-> opponent,
         win |-> win_prob, loss |-> RatingScale - win_prob, draw |-> RatingScale \div 5]

-----------------------------------------------------------------------------
(* The live service before any match is started *)

MatchIds == {"m1"}

\* live_match_service = LiveMatchService(connection_manager): no Redis client, and
\* a ConnectionManager nobody has connected to
Unattached ==
    /\ topic_subscribers = {}
    /\ sending = [m \in MatchIds |-> 0]
    /\ redis_client = FALSE

NoPrediction == [set |-> FALSE]
NoUpdate == [kind |-> "none"]
NoResponse == [endpoint |-> "", status |-> 0, detail |-> ""]

\* predictor = None, no request handled, nothing published
ApiIdle ==
    /\ predictor = FALSE
    /\ serving = FALSE
    /\ response = NoResponse
    /\ published = <<>>

NoPayload == [type |-> "none"]

\* message_queue = MessageQueue(): nothing registered, nothing published
QueueIdle ==
    /\ queue_redis = FALSE
    /\ handlers = <<>>
    /\ queue = <<>>
    /\ events = <<>>
    /\ dead_letter_queue = <<>>
    /\ metrics = [events_published |-> 0, events_processed |-> 0, events_failed |-> 0]
    /\ cache = NoPayload

\* What hashlib.md5(name.encode()).hexdigest()[:8] keeps of a name: 32 bits, so
\* that distinct names can share it (here ending_a and ending_b)
Names == {"derby", "ending_a", "ending_b"}
name_hash == [name \in Names |-> IF name = "derby" THEN "d1" ELSE "e7"]

\* f"exp_{timestamp}_{name_hash}" at a second of the clock
ExperimentIds == (0..MaxClock) \X {"d1", "e7"}

NoExperiment == [set |-> FALSE]
NoCreate == [set |-> FALSE]

\* ab_testing = ABTestingFramework()
AbIdle ==
    /\ clock = 0
    /\ experiments = [id \in ExperimentIds |-> NoExperiment]
    /\ results_cache = [id \in ExperimentIds |-> <<>>]
    /\ created = NoCreate

\* connection_manager = ConnectionManager()
ManagerIdle ==
    /\ active_connections = {}
    /\ user_subscriptions = <<>>
    /\ topic_subscriber_sets = <<>>
    /\ connection_metadata = <<>>
    /\ issued = 0
    /\ in_flight = {}
    /\ broadcasting = {}

RestIdle == ApiIdle /\ QueueIdle /\ AbIdle /\ ManagerIdle

LiveIdle ==
    /\ objs = <<>>
    /\ live_matches = [m \in MatchIds |-> 0]
    /\ match_predictions = [m \in MatchIds |-> NoPrediction]
    /\ update_tasks = [m \in MatchIds |-> 0]
    /\ tasks = <<>>
    /\ pending = [m \in MatchIds |-> 0]
    /\ stopping = [m \in MatchIds |-> 0]
    /\ ncalls = 0
    /\ ngoals = 0
    /\ last_update = NoUpdate
    /\ status_log = <<>>

-----------------------------------------------------------------------------
(* The pipeline as a state machine; the twin run takes the same steps. *)

NoTwin == [on |-> FALSE]
NoRow == [fixture |-> 0, team |-> ""]

TwinOf(m) ==
    [on |-> TRUE, matches |-> m, team_ratings |-> <<>>,
     ratings_list |-> <<>>, opp_ratings_list |-> <<>>]

PipelineStart(m) ==
    /\ matches = m
    /\ ppc = "loaded"
    /\ team_ratings = <<>>
    /\ ratings_list = <<>>
    /\ opp_ratings_list = <<>>
    /\ idx = 0
    /\ writes = [t \in Teams |-> <<>>]
    /\ ingested = m
    /\ predicted = NoResult

CreateRollingFeatures ==
    /\ ppc = "loaded"
    /\ matches' = create_rolling_features(matches)
    /\ twin' = IF twin.on
               THEN [twin EXCEPT !.matches = create_rolling_features(twin.matches)]
               ELSE twin
    /\ ppc' = "rolled"
    /\ UNCHANGED <<team_ratings, ratings_list, opp_ratings_list, idx, writes, perturbed, ingested,
                   predicted>>
    /\ UNCHANGED <<lvars, cvars, xvars>>

InitTeamStrength ==
    /\ ppc = "rolled"
    /\ matches' = SortByDate(matches)
    /\ team_ratings' = [t \in AllTeams(matches) |-> initial_rating * RatingScale]
    /\ ratings_list' = <<>>
    /\ opp_ratings_list' = <<>>
    /\ idx' = 0
    /\ twin' = IF twin.on
               THEN [twin EXCEPT
                       !.matches = SortByDate(twin.matches),
                       !.team_ratings = [t \in AllTeams(twin.matches) |->
                                            initial_rating * RatingScale]]
               ELSE twin
    /\ ppc' = "rating"
    /\ UNCHANGED <<writes, perturbed, ingested,
                   predicted>>
    /\ UNCHANGED <<lvars, cvars, xvars>>

RatingRow ==
    /\ ppc = "rating"
    /\ idx < Len(matches)
    /\ LET row == matches[idx + 1]
           rd == ReadRatings(team_ratings, row)
       IN  /\ ratings_list' = Append(ratings_list, rd.team_rating)
           /\ opp_ratings_list' = Append(opp_ratings_list, rd.opp_rating)
           /\ team_ratings' = StoreRatings(team_ratings, row)
           /\ writes' = [t \in Teams |->
                            IF t \in {row.team, row.opponent}
                            THEN Append(writes[t], row.date) ELSE writes[t]]
    /\ twin' = IF twin.on
               THEN LET row == twin.matches[idx + 1]
                        rd == ReadRatings(twin.team_ratings, row)
                    IN  [twin EXCEPT
                           !.ratings_list = Append(@, rd.team_rating),
                           !.opp_ratings_list = Append(@, rd.opp_rating),
                           !.team_ratings = StoreRatings(twin.team_ratings, row)]
               ELSE twin
    /\ idx' = idx + 1
    /\ UNCHANGED <<matches, ppc, perturbed, ingested,
                   predicted>>
    /\ UNCHANGED <<lvars, cvars, xvars>>

FinishTeamStrength ==
    /\ ppc = "rating"
    /\ idx = Len(matches)
    /\ matches' = WithRatings(matches, ratings_list, opp_ratings_list)
    /\ twin' = IF twin.on
               THEN [twin EXCEPT !.matches =
                        WithRatings(twin.matches, twin.ratings_list, twin.opp_ratings_list)]
               ELSE twin
    /\ ppc' = "done"
    /\ UNCHANGED <<team_ratings, ratings_list, opp_ratings_list, idx, writes, perturbed, ingested,
                   predicted>>
    /\ UNCHANGED <<lvars, cvars, xvars>>

\* A call of predict_match_probability once the features exist
PredictMatchProbability ==
    /\ ppc = "done"
    /\ \E team \in Teams : \E opponent \in Teams :
          predicted' = predict_match_probability(matches, team, opponent)
    /\ UNCHANGED <<matches, ppc, team_ratings, ratings_list, opp_ratings_list, idx,
                   writes, twin, perturbed, ingested>>
    /\ UNCHANGED <<lvars, cvars, xvars>>

PipelineNext ==
    \/ CreateRollingFeatures
    \/ InitTeamStrength
    \/ RatingRow
    \/ FinishTeamStrength
    \/ PredictMatchProbability

\* Every log of up to MaxFixtures fixtures, two rows per fixture, sorted by date.
InitFeatures ==
    /\ \E n \in 1..MaxFixtures : \E f \in [1..n -> FixtureChoices(Teams)] :
          /\ f[1][3] = 0
          /\ PipelineStart(BuildLog(f))
    /\ twin = NoTwin
    /\ perturbed = NoRow
    /\ LiveIdle
    /\ Unattached
    /\ RestIdle

SpecFeatures == InitFeatures /\ [][PipelineNext]_vars

\* Logs of two teams, and a twin run whose log differs in one row's result, gf and ga.
InitLeak ==
    /\ LiveIdle
    /\ Unattached
    /\ RestIdle
    /\ \E n \in 1..MaxFixtures : \E f \in [1..n -> FixtureChoices(LeakTeams)] :
      \E i \in 1..(2 * n) : \E sc \in Scorelines :
        LET m == BuildLog(f)
            alt == Row(m[i].fixture, m[i].date, m[i].team, m[i].opponent, sc[1], sc[2])
        IN  /\ f[1][3] = 0
            /\ sc # <<m[i].gf, m[i].ga>>
            /\ PipelineStart(m)
            /\ twin = TwinOf([m EXCEPT ![i] = alt])
            /\ perturbed = [fixture |-> m[i].fixture, team |-> m[i].team]

SpecLeak == InitLeak /\ [][PipelineNext]_vars

\* The rows of one team over up to MaxRows consecutive dates, one row per fixture.
InitRolling ==
    /\ \E n \in 1..MaxRows : \E g \in [1..n -> {0, 1}] :
          PipelineStart([k \in 1..n |-> Row(k, k, "A", "B", g[k], 1 - g[k])])
    /\ twin = NoTwin
    /\ perturbed = NoRow
    /\ LiveIdle
    /\ Unattached
    /\ RestIdle

SpecRolling == InitRolling /\ [][CreateRollingFeatures]_vars

-----------------------------------------------------------------------------
(* LiveMatchService: data *)

ScoreArgs == {0, 1}                 \* scores passed to update_match_score
MinuteArgs == {0, 23, 90}           \* minutes passed to update_match_score

\* LiveMatchUpdate(match_id, minute=0, home_score=0, away_score=0, "pre-match", [])
NewMatch(m) ==
    [match_id |-> m, minute |-> 0, home_score |-> 0, away_score |-> 0,
     status |-> "pre-match", events |-> <<>>]

\* update_match_score on a tracked match: the three assignments, then the score event
ScoreUpdated(match, home_score, away_score, minute) ==
    LET m1 == [match EXCEPT !.home_score = home_score,
                            !.away_score = away_score,
                            !.minute = minute]
    IN  IF home_score # m1.home_score \/ away_score # m1.away_score
        THEN [m1 EXCEPT !.events =
                Append(@, [type |-> "goal", minute |-> minute,
                           team |-> IF home_score > m1.home_score
                                    THEN "home" ELSE "away"])]
        ELSE m1

\* a time factor that grows with the minute played
TimeFactorRising(minute) == Max(9, minute)

\* time_factor = max(0.1, (90 - minute) / 90), in 1/90
TimeFactor(minute) == Max(9, 90 - minute)

\* win_prob, loss_prob and draw_prob before normalising, in 1/9000, and their total
RawProbabilities(home_score, away_score, minute) ==
    LET elapsed == 90 - TimeFactor(minute)
        score_diff == home_score - away_score
        win == IF score_diff > 0 THEN 5400 + score_diff * 15 * elapsed
               ELSE IF score_diff < 0 THEN 1800 + score_diff * 5 * elapsed
               ELSE 3600
        loss == IF score_diff > 0 THEN 1800 - score_diff * 5 * elapsed
                ELSE IF score_diff < 0 THEN 5400 - score_diff * 15 * elapsed
                ELSE 3600
        draw == Max(900, 9000 - win - loss)
    IN  [win |-> win, draw |-> draw, loss |-> loss, total |-> win + draw + loss]

\* round(num / den, 3) in 1/1000, den > 0: the nearest thousandth; on an exact tie
\* the double nearest to the quotient decides, so either neighbour may result.
Round3(num, den) ==
    LET q == (1000 * num) \div den
        r == (1000 * num) % den
    IN  IF 2 * r > den THEN {q + 1}
        ELSE IF 2 * r < den THEN {q}
        ELSE {q, q + 1}

\* The PredictionUpdate objects _update_live_predictions may store for a match
LivePredictions(match) ==
    LET p == RawProbabilities(match.home_score, match.away_score, match.minute)
    IN  { [set |-> TRUE, win_probability |-> w, draw_probability |-> d,
           loss_probability |-> l, confidence |-> c] :
            w \in Round3(p.win, p.total), d \in Round3(p.draw, p.total),
            l \in Round3(p.loss, p.total),
            c \in Round3(90 - TimeFactor(match.minute), 90) }

\* The status an object takes, appended to its history when it changes
Logged(log, o, status) ==
    IF log[o][Len(log[o])] = status THEN log
    ELSE [log EXCEPT ![o] = Append(@, status)]

PipelineIdle ==
    /\ matches = <<>>
    /\ ppc = "idle"
    /\ team_ratings = <<>>
    /\ ratings_list = <<>>
    /\ opp_ratings_list = <<>>
    /\ idx = 0
    /\ writes = [t \in Teams |-> <<>>]
    /\ twin = NoTwin
    /\ perturbed = NoRow
    /\ ingested = <<>>
    /\ predicted = NoResult

-----------------------------------------------------------------------------
(* LiveMatchService: operations.  An action is the code between two awaits. *)

\* The body of start_live_match up to its broadcast: a new object and a new task
\* replace the entries of the id
Started(m) ==
    /\ objs' = Append(objs, NewMatch(m))
    /\ status_log' = Append(status_log, <<"pre-match">>)
    /\ live_matches' = [live_matches EXCEPT ![m] = Len(objs) + 1]
    /\ tasks' = Append(tasks, [match_id |-> m, obj |-> 0, pc |-> "created", minute |-> 0])
    /\ update_tasks' = [update_tasks EXCEPT ![m] = Len(tasks) + 1]
    /\ UNCHANGED <<match_predictions, pending, stopping, ncalls, ngoals>>
    /\ last_update' = NoUpdate
    /\ UNCHANGED <<pvars, cvars>>

\* start_live_match
StartLiveMatch(m) ==
    /\ Len(objs) < MaxStarts
    /\ Started(m)
    /\ UNCHANGED xvars

\* The record of an update_match_score call on the heap
UpdateRecord(heap, m, home_score, away_score, minute) ==
    IF live_matches[m] = 0
    THEN [kind |-> "not_found", match_id |-> m, home_score |-> home_score,
          away_score |-> away_score, minute |-> minute]
    ELSE [kind |-> "accepted", match_id |-> m, home_score |-> home_score,
          away_score |-> away_score, minute |-> minute,
          before |-> heap[live_matches[m]],
          after |-> ScoreUpdated(heap[live_matches[m]], home_score, away_score, minute),
          prediction |-> match_predictions[m]]

\* update_match_score up to its broadcast: lines 288-323.  With a Redis client the
\* setex of line 309 may raise, which ends the call; with a subscriber of the
\* topic the broadcast waits in that connection's send_text.
UpdateMatchScore(m, home_score, away_score, minute) ==
    /\ ncalls < MaxCalls
    /\ ncalls' = ncalls + 1
    /\ IF live_matches[m] = 0
       THEN /\ last_update' = UpdateRecord(objs, m, home_score, away_score, minute)
            /\ UNCHANGED <<objs, pending, sending>>
       ELSE /\ objs' = [objs EXCEPT ![live_matches[m]] =
                           ScoreUpdated(@, home_score, away_score, minute)]
            /\ \/ /\ redis_client
                  /\ last_update' =
                        [UpdateRecord(objs, m, home_score, away_score, minute)
                            EXCEPT !.kind = "raised"]
                  /\ UNCHANGED <<pending, sending>>
               \/ /\ last_update' = UpdateRecord(objs, m, home_score, away_score, minute)
                  /\ IF topic_subscribers = {}
                     THEN /\ pending' = [pending EXCEPT ![m] = @ + 1]
                          /\ UNCHANGED sending
                     ELSE /\ sending' = [sending EXCEPT ![m] = @ + 1]
                          /\ UNCHANGED pending
    /\ UNCHANGED <<live_matches, match_predictions, update_tasks, tasks, stopping,
                   ngoals, status_log, topic_subscribers, redis_client>>
    /\ UNCHANGED <<pvars, xvars>>

\* _update_live_predictions: what it leaves in match_predictions
PredictionsAfter(m) ==
    IF live_matches[m] = 0 THEN {match_predictions}
    ELSE { [match_predictions EXCEPT ![m] = p] : p \in LivePredictions(objs[live_matches[m]]) }

\* the rest of update_match_score: lines 326-328
UpdateLivePredictions(m) ==
    /\ pending[m] > 0
    /\ pending' = [pending EXCEPT ![m] = @ - 1]
    /\ match_predictions' \in PredictionsAfter(m)
    /\ last_update' = NoUpdate
    /\ UNCHANGED <<objs, live_matches, update_tasks, tasks, stopping, ncalls, ngoals,
                   status_log>>
    /\ UNCHANGED <<pvars, cvars, xvars>>

\* finally: if match_id in self.update_tasks: del self.update_tasks[match_id]
Dropped(m) == [update_tasks EXCEPT ![m] = 0]

SetTask(t, o, pc, minute) ==
    [tasks EXCEPT ![t] = [match_id |-> tasks[t].match_id, obj |-> o,
                          pc |-> pc, minute |-> minute]]

\* after the loop: match.status = "full-time", then the finally clause
SimExit(t, o, minute, heap, log) ==
    /\ objs' = [heap EXCEPT ![o].status = "full-time"]
    /\ status_log' = Logged(log, o, "full-time")
    /\ update_tasks' = Dropped(tasks[t].match_id)
    /\ tasks' = SetTask(t, o, "done", minute)

\* match.minute = minute, the minute_update broadcast, break or sleep: lines 415-429
SimMinute(t, o, minute, heap, log) ==
    LET h1 == [heap EXCEPT ![o].minute = minute]
    IN  IF h1[o].status = "full-time"
        THEN SimExit(t, o, minute, h1, log)
        ELSE /\ objs' = h1
             /\ status_log' = log
             /\ tasks' = SetTask(t, o, "sleep", minute)
             /\ UNCHANGED update_tasks

\* the random score update: lines 404-413, up to the broadcast of update_match_score
SimGoal(t, o, minute, heap, log) ==
    \/ /\ SimMinute(t, o, minute, heap, log)
       /\ UNCHANGED ngoals /\ last_update' = NoUpdate
    \/ /\ minute > 10 /\ minute < 85 /\ Len(heap[o].events) < 4
       /\ ngoals < MaxGoals
       /\ \E side \in {"home", "away"} :
            LET m == tasks[t].match_id
                h1 == IF side = "home"
                      THEN [heap EXCEPT ![o].home_score = @ + 1]
                      ELSE [heap EXCEPT ![o].away_score = @ + 1]
            IN  /\ objs' = [h1 EXCEPT ![live_matches[m]] =
                              ScoreUpdated(@, h1[o].home_score, h1[o].away_score, minute)]
                /\ last_update' =
                      UpdateRecord(h1, m, h1[o].home_score, h1[o].away_score, minute)
       /\ ngoals' = ngoals + 1
       /\ status_log' = log
       /\ tasks' = SetTask(t, o, "updating", minute)
       /\ UNCHANGED update_tasks

\* the status at the top of an iteration: lines 394-401
StatusAt(minute, status) ==
    IF minute = 1 THEN "live"
    ELSE IF minute = 45 THEN "half-time"
    ELSE IF minute = 90 THEN "full-time"
    ELSE status

\* one iteration of for minute in range(1, 91, 5), up to its first await
SimIteration(t, o, minute) ==
    IF live_matches[tasks[t].match_id] = 0
    THEN /\ SimExit(t, o, minute, objs, status_log)
         /\ UNCHANGED ngoals /\ last_update' = NoUpdate
    ELSE LET status == StatusAt(minute, objs[o].status)
             h1 == [objs EXCEPT ![o].status = status]
             log == Logged(status_log, o, status)
         IN  IF minute = 45
             THEN /\ objs' = h1
                  /\ status_log' = log
                  /\ tasks' = SetTask(t, o, "halftime", minute)
                  /\ UNCHANGED <<update_tasks, ngoals>>
                  /\ last_update' = NoUpdate
             ELSE SimGoal(t, o, minute, h1, log)

\* The task starts (match = self.live_matches[match_id]) or wakes from its sleep.
SimStep(t) ==
    /\ tasks[t].pc \in {"created", "sleep"}
    /\ IF tasks[t].pc = "created"
       THEN IF live_matches[tasks[t].match_id] = 0
            THEN /\ tasks' = SetTask(t, 0, "done", 0)
                 /\ update_tasks' = Dropped(tasks[t].match_id)
                 /\ UNCHANGED <<objs, status_log, ngoals>>
                 /\ last_update' = NoUpdate
            ELSE SimIteration(t, live_matches[tasks[t].match_id], 1)
       ELSE IF tasks[t].minute + 5 >= 91
            THEN /\ SimExit(t, tasks[t].obj, tasks[t].minute, objs, status_log)
                 /\ UNCHANGED ngoals /\ last_update' = NoUpdate
            ELSE SimIteration(t, tasks[t].obj, tasks[t].minute + 5)
    /\ UNCHANGED <<live_matches, match_predictions, pending, stopping, ncalls>>
    /\ UNCHANGED <<pvars, cvars, xvars>>

\* The task resumes from the await inside update_match_score or from the half-time sleep.
SimResume(t) ==
    /\ tasks[t].pc \in {"updating", "halftime"}
    /\ IF tasks[t].pc = "updating"
       THEN /\ match_predictions' \in PredictionsAfter(tasks[t].match_id)
            /\ SimMinute(t, tasks[t].obj, tasks[t].minute, objs, status_log)
            /\ UNCHANGED ngoals /\ last_update' = NoUpdate
       ELSE /\ SimGoal(t, tasks[t].obj, tasks[t].minute,
                       [objs EXCEPT ![tasks[t].obj].status = "live"],
                       Logged(status_log, tasks[t].obj, "live"))
            /\ UNCHANGED match_predictions
    /\ UNCHANGED <<live_matches, pending, stopping, ncalls>>
    /\ UNCHANGED <<pvars, cvars, xvars>>

\* except asyncio.CancelledError, then the finally clause
SimCancelled(t) ==
    /\ tasks[t].pc = "cancelled"
    /\ tasks' = SetTask(t, tasks[t].obj, "done", tasks[t].minute)
    /\ update_tasks' = Dropped(tasks[t].match_id)
    /\ last_update' = NoUpdate
    /\ UNCHANGED <<objs, live_matches, match_predictions, pending, stopping, ncalls,
                   ngoals, status_log>>
    /\ UNCHANGED <<pvars, cvars, xvars>>

\* task.cancel(): a task that never ran is dropped, a suspended one is interrupted
Cancelled(t) ==
    IF tasks[t].pc = "created" THEN SetTask(t, 0, "done", 0)
    ELSE IF tasks[t].pc \in {"sleep", "updating", "halftime"}
         THEN SetTask(t, tasks[t].obj, "cancelled", tasks[t].minute)
         ELSE tasks

\* The record of a stop_live_match call
StopRecord(m) ==
    [kind |-> "stop", match_id |-> m,
     found |-> (update_tasks[m] # 0 \/ live_matches[m] # 0)]

\* stop_live_match up to its broadcast, or to its end for an id that is not in
\* live_matches: lines 449-460.  The calls for one id follow one another.
StopLiveMatch(m) ==
    /\ stopping[m] = 0
    /\ tasks' = IF update_tasks[m] # 0 THEN Cancelled(update_tasks[m]) ELSE tasks
    /\ update_tasks' = [update_tasks EXCEPT ![m] = 0]
    /\ IF live_matches[m] # 0
       THEN /\ objs' = [objs EXCEPT ![live_matches[m]].status = "finished"]
            /\ status_log' = Logged(status_log, live_matches[m], "finished")
            /\ stopping' = [stopping EXCEPT ![m] = live_matches[m]]
       ELSE UNCHANGED <<objs, status_log, stopping>>
    /\ UNCHANGED <<live_matches, match_predictions, pending, ncalls, ngoals>>
    /\ last_update' = StopRecord(m)
    /\ UNCHANGED <<pvars, cvars, xvars>>

\* A stop_live_match that returns without deleting the id from live_matches
StopFinishKeeps(m) ==
    /\ stopping[m] # 0
    /\ stopping' = [stopping EXCEPT ![m] = 0]
    /\ last_update' = [kind |-> "stopped", match_id |-> m]
    /\ UNCHANGED <<objs, live_matches, match_predictions, update_tasks, tasks, pending,
                   ncalls, ngoals, status_log>>
    /\ UNCHANGED <<pvars, cvars, xvars>>

\* del self.live_matches[match_id]: line 462
StopFinish(m) ==
    /\ stopping[m] # 0
    /\ stopping' = [stopping EXCEPT ![m] = 0]
    /\ live_matches' = [live_matches EXCEPT ![m] = 0]
    /\ last_update' = [kind |-> "stopped", match_id |-> m]
    /\ UNCHANGED <<objs, match_predictions, update_tasks, tasks, pending, ncalls, ngoals,
                   status_log>>
    /\ UNCHANGED <<pvars, cvars, xvars>>

LiveNext ==
    \/ \E m \in MatchIds : StartLiveMatch(m)
    \/ \E m \in MatchIds : \E hs \in ScoreArgs : \E as \in ScoreArgs : \E mn \in MinuteArgs :
          UpdateMatchScore(m, hs, as, mn)
    \/ \E m \in MatchIds : UpdateLivePredictions(m)
    \/ \E t \in DOMAIN tasks : SimStep(t)
    \/ \E t \in DOMAIN tasks : SimResume(t)
    \/ \E t \in DOMAIN tasks : SimCancelled(t)
    \/ \E m \in MatchIds : StopLiveMatch(m)
    \/ \E m \in MatchIds : StopFinish(m)

InitLive == LiveIdle /\ PipelineIdle /\ Unattached /\ RestIdle

SpecLive == InitLive /\ [][LiveNext]_vars

\* start_live_match(m), then update_match_score(m, home_score, away_score, minute)
\* up to its broadcast, before the simulation task has run.
InitProb ==
    /\ PipelineIdle
    /\ Unattached
    /\ RestIdle
    /\ live_matches = [m \in MatchIds |-> 1]
    /\ match_predictions = [m \in MatchIds |-> NoPrediction]
    /\ update_tasks = [m \in MatchIds |-> 1]
    /\ tasks = <<[match_id |-> "m1", obj |-> 0, pc |-> "created", minute |-> 0]>>
    /\ pending = [m \in MatchIds |-> 1]
    /\ stopping = [m \in MatchIds |-> 0]
    /\ ncalls = 1
    /\ ngoals = 0
    /\ status_log = << <<"pre-match">> >>
    /\ \E home_score \in 0..MaxScore : \E away_score \in 0..MaxScore : \E minute \in 0..90 :
          /\ objs = <<ScoreUpdated(NewMatch("m1"), home_score, away_score, minute)>>
          /\ last_update = UpdateRecord(<<NewMatch("m1")>>, "m1", home_score, away_score, minute)

ProbNext == \E m \in MatchIds : UpdateLivePredictions(m)

SpecProb == InitProb /\ [][ProbNext]_vars

\* POST /live-match/start has called start_live_match(m) and published MATCH_STARTED
InitRestart ==
    /\ PipelineIdle
    /\ Unattached
    /\ RestIdle
    /\ objs = <<NewMatch("m1")>>
    /\ status_log = << <<"pre-match">> >>
    /\ live_matches = [m \in MatchIds |-> 1]
    /\ match_predictions = [m \in MatchIds |-> NoPrediction]
    /\ tasks = <<[match_id |-> "m1", obj |-> 0, pc |-> "created", minute |-> 0]>>
    /\ update_tasks = [m \in MatchIds |-> 1]
    /\ pending = [m \in MatchIds |-> 0]
    /\ stopping = [m \in MatchIds |-> 0]
    /\ ncalls = 0
    /\ ngoals = 0
    /\ last_update = NoUpdate

\* MatchEventHandler._handle_match_started: start_live_match(payload) for the
\* published id, which is already tracked unless it was stopped meanwhile
HandleMatchStarted(m) ==
    /\ Len(objs) < MaxStarts + 1
    /\ Started(m)
    /\ UNCHANGED xvars

RestartNext ==
    \/ \E m \in MatchIds : HandleMatchStarted(m)
    \/ \E t \in DOMAIN tasks : SimStep(t)
    \/ \E t \in DOMAIN tasks : SimResume(t)
    \/ \E t \in DOMAIN tasks : SimCancelled(t)
    \/ \E m \in MatchIds : StopLiveMatch(m)
    \/ \E m \in MatchIds : StopFinish(m)

SpecRestart == InitRestart /\ [][RestartNext]_vars

-----------------------------------------------------------------------------
(* The service with a subscriber and with a Redis client *)

Connections == {"c1"}

\* LiveMatchService(connection_manager, redis_client) or LiveMatchService(connection_manager)
InitService ==
    /\ LiveIdle
    /\ PipelineIdle
    /\ topic_subscribers = {}
    /\ sending = [m \in MatchIds |-> 0]
    /\ redis_client \in BOOLEAN
    /\ RestIdle

\* ConnectionManager.connect with the default topics, "live_matches" among them
Connect(c) ==
    /\ c \notin topic_subscribers
    /\ topic_subscribers' = topic_subscribers \cup {c}
    /\ last_update' = NoUpdate
    /\ UNCHANGED <<objs, live_matches, match_predictions, update_tasks, tasks, pending,
                   stopping, ncalls, ngoals, status_log, sending, redis_client>>
    /\ UNCHANGED <<pvars, xvars>>

\* The awaited part of an update_match_score call goes on once its broadcast is over
Sent(m) ==
    /\ sending[m] > 0
    /\ sending' = [sending EXCEPT ![m] = @ - 1]
    /\ pending' = [pending EXCEPT ![m] = @ + 1]
    /\ last_update' = NoUpdate
    /\ UNCHANGED <<objs, live_matches, match_predictions, update_tasks, tasks, stopping,
                   ncalls, ngoals, status_log, redis_client>>
    /\ UNCHANGED <<pvars, xvars>>

\* websocket.send_text returns: the subscriber has taken the score_update message
SendReturns(m) ==
    /\ Sent(m)
    /\ UNCHANGED topic_subscribers

\* websocket.send_text raises: send_personal_message disconnects the connection
SendRaises(m) ==
    /\ Sent(m)
    /\ \E c \in topic_subscribers : topic_subscribers' = topic_subscribers \ {c}

ServiceNext ==
    \/ \E m \in MatchIds : StartLiveMatch(m)
    \/ \E c \in Connections : Connect(c)
    \/ \E m \in MatchIds : \E hs \in ScoreArgs : \E as \in ScoreArgs : \E mn \in MinuteArgs :
          UpdateMatchScore(m, hs, as, mn)
    \/ \E m \in MatchIds : SendReturns(m)
    \/ \E m \in MatchIds : SendRaises(m)
    \/ \E m \in MatchIds : UpdateLivePredictions(m)

SpecService == InitService /\ [][ServiceNext]_vars

\* The event loop runs every coroutine that is ready; when a subscriber's send_text
\* returns is up to the subscriber.
SpecServiceFair ==
    /\ SpecService
    /\ WF_vars(\E m \in MatchIds : UpdateLivePredictions(m))

-----------------------------------------------------------------------------
(* Properties of the rating pass *)

InitialStore(m) == [t \in AllTeams(m) |-> initial_rating * RatingScale]

\* The rating store after the first n rows of m have been processed
RECURSIVE StoreAfter(_, _)
StoreAfter(m, n) ==
    IF n = 0 THEN InitialStore(m) ELSE StoreRatings(StoreAfter(m, n - 1), m[n])

\* Position of the first row played on the date of row k
FirstOfDate(m, k) ==
    CHOOSE j \in 1..k : /\ m[j].date = m[k].date
                        /\ \A h \in 1..(j - 1) : m[h].date # m[k].date

RECURSIVE SumOver(_, _)
SumOver(f, S) ==
    IF S = {} THEN 0
    ELSE LET x == CHOOSE y \in S : TRUE IN f[x] + SumOver(f, S \ {x})

FixturesOf(m, t) == { m[k].fixture : k \in { h \in 1..Len(m) : m[h].team = t } }

NonDecreasing(s) == \A k \in 1..(Len(s) - 1) : s[k] <= s[k + 1]

\* C1: on every row of a fixture the recorded team_rating and opp_rating are the
\* ratings the two teams had before any row of that fixture, or of its date, was
\* applied to the rating store.
C1_PreMatchRatingsOnEveryRow ==
    ppc = "rating" =>
        \A k \in 1..idx :
            LET pre == StoreAfter(matches, FirstOfDate(matches, k) - 1)
            IN  /\ ratings_list[k] = pre[matches[k].team]
                /\ opp_ratings_list[k] = pre[matches[k].opponent]

C4_OneMutationPerFixture ==
    ppc = "done" =>
        \A t \in Teams :
            /\ Len(writes[t]) = Cardinality(FixturesOf(matches, t))
            /\ NonDecreasing(writes[t])

-----------------------------------------------------------------------------
(* No self-leakage, over the two runs of SpecLeak *)

RowOf(m, fx, t) ==
    m[CHOOSE k \in 1..Len(m) : m[k].fixture = fx /\ m[k].team = t]

\* C2: the features recorded for a row are the same in two runs whose logs differ
\* only in that row's own result, gf and ga.
C2_NoSelfLeakage ==
    twin.on =>
        LET a == RowOf(matches, perturbed.fixture, perturbed.team)
            b == RowOf(twin.matches, perturbed.fixture, perturbed.team)
        IN  /\ ppc \in {"rolled", "rating", "done"} => a.rolling = b.rolling
            /\ ppc = "done" => /\ a.team_rating = b.team_rating
                               /\ a.opp_rating = b.opp_rating
                               /\ a.rating_diff = b.rating_diff

\* Both runs are complete, the perturbed row has earlier rows of its team, its
\* result differs between the runs and the difference has reached the rating store.
C2_Witness ==
    /\ twin.on
    /\ ppc = "done"
    /\ LET a == RowOf(matches, perturbed.fixture, perturbed.team)
           b == RowOf(twin.matches, perturbed.fixture, perturbed.team)
       IN  /\ a.result # b.result
           /\ a.gf # b.gf
           /\ ~IsNaN(a.rolling[<<"gf", 3>>])
           /\ a.team_rating # initial_rating * RatingScale
    /\ team_ratings # twin.team_ratings

-----------------------------------------------------------------------------
(* Rolling windows, over the one-team logs of SpecRolling *)

\* Rows of m of the team of row i played before row i
EarlierRows(m, i) ==
    { h \in 1..Len(m) : m[h].team = m[i].team /\ m[h].date < m[i].date }

\* The n latest rows of a set E of rows of m
Latest(m, E, n) ==
    { h \in E : Cardinality({ g \in E : m[g].date > m[h].date }) < n }

MeanOver(m, S, col) ==
    IF S = {} THEN NaN
    ELSE [num |-> SumOver([h \in S |-> IF col = "gf" THEN m[h].gf
                                       ELSE IF col = "ga" THEN m[h].ga
                                       ELSE IF col = "gd" THEN m[h].gf - m[h].ga
                                       ELSE Target(m[h])], S),
          den |-> Cardinality(S)]

\* The claim for row i of m, whose earlier rows are E
WindowIsPreceding(m, i, E) ==
    \A w \in WindowSet :
        LET n == Min(Cardinality(E), w)
            prev == Latest(m, E, n)
        IN  /\ Cardinality(prev) = n
            /\ \A col \in RollCols :
                  /\ m[i].rolling[<<col, w>>] = MeanOver(m, prev, col)
                  /\ m[i].rolling[<<col, w>>].den <= w

\* C10: for every window size w, the rolling aggregates of a row with k earlier rows
\* of its team are taken over exactly the min(k, w) immediately preceding rows of
\* that team, never over more than w rows.
C10_RollingWindowBound ==
    ppc = "rolled" =>
        \A i \in 1..Len(matches) : WindowIsPreceding(matches, i, EarlierRows(matches, i))

\* A row with eleven earlier rows: the oldest, which scored, has left every window.
C10_Witness ==
    /\ ppc = "rolled"
    /\ Len(matches) >= 12
    /\ matches[1].gf = 1
    /\ matches[2].gf = 0
    /\ matches[12].rolling[<<"gf", 10>>].den = 10
    /\ matches[12].rolling[<<"gf", 10>>].num
         = SumOver([h \in 2..11 |-> matches[h].gf], 2..11)
    /\ matches[4].rolling[<<"gf", 3>>].den = 3
    /\ matches[6].rolling[<<"gf", 5>>].den = 5

-----------------------------------------------------------------------------
(* Properties of the live service *)

\* The match the last update_match_score call was applied to, as it is now
Updated == objs[live_matches[last_update.match_id]]

\* The last step made an update_match_score call for a match that was tracked
OnTracked(u) == u.kind \in {"accepted", "raised", "rejected"}

SameMatchState(a, b) ==
    /\ a.home_score = b.home_score
    /\ a.away_score = b.away_score
    /\ a.minute = b.minute
    /\ a.events = b.events

\* C5: an update_match_score call on a tracked match with a minute or a score lower
\* than the current one is rejected and leaves home_score, away_score, minute,
\* events and the stored prediction unchanged.
C5_MonotonicRejection ==
    (/\ OnTracked(last_update)
     /\ \/ last_update.minute < last_update.before.minute
        \/ last_update.home_score < last_update.before.home_score
        \/ last_update.away_score < last_update.before.away_score)
    => /\ last_update.kind = "rejected"
       /\ SameMatchState(Updated, last_update.before)
       /\ match_predictions[last_update.match_id] = last_update.prediction

\* C6: an accepted update_match_score call appends one goal event per unit by which
\* it raises the home or the away score, and none when neither score changes.
C6_GoalEvents ==
    last_update.kind = "accepted" =>
        Len(Updated.events) =
            Len(last_update.before.events)
            + Max(0, last_update.home_score - last_update.before.home_score)
            + Max(0, last_update.away_score - last_update.before.away_score)

\* C7: an update_match_score call for a tracked match whose status is full-time is
\* rejected and leaves score, minute, events and prediction unchanged.
C7_FullTimeRejection ==
    (OnTracked(last_update) /\ last_update.before.status = "full-time") =>
        /\ last_update.kind = "rejected"
        /\ SameMatchState(Updated, last_update.before)
        /\ match_predictions[last_update.match_id] = last_update.prediction

StatusPath == <<"pre-match", "live", "half-time", "live", "full-time">>

IsPrefix(s, t) ==
    /\ Len(s) <= Len(t)
    /\ \A k \in 1..Len(s) : s[k] = t[k]

\* C8: the status of a match only follows pre-match, live, half-time, live,
\* full-time; an accepted update leaves no match in pre-match; a live match past
\* minute 45 has been through half-time; nothing follows full-time.
C8_StatusTransitions ==
    /\ \A o \in 1..Len(objs) : IsPrefix(status_log[o], StatusPath)
    /\ last_update.kind = "accepted" => Updated.status # "pre-match"
    /\ \A o \in 1..Len(objs) :
          (objs[o].status = "live" /\ objs[o].minute > 45) =>
              \E k \in 1..Len(status_log[o]) : status_log[o][k] = "half-time"

\* C9: the win, draw and loss probabilities _update_live_predictions computes for a
\* match with non-negative scores and a minute in 0..90 sum to 1 and each lies in
\* [0, 1]; so does each probability it stores.
C9_ProbabilityNormalization ==
    \A m \in MatchIds :
        (live_matches[m] # 0 /\ match_predictions[m].set /\ pending[m] = 0) =>
            LET match == objs[live_matches[m]]
                p == RawProbabilities(match.home_score, match.away_score, match.minute)
                stored == match_predictions[m]
            IN  /\ p.total > 0
                /\ p.win + p.draw + p.loss = p.total
                /\ 0 <= p.win /\ p.win <= p.total
                /\ 0 <= p.draw /\ p.draw <= p.total
                /\ 0 <= p.loss /\ p.loss <= p.total
                /\ stored.win_probability \in 0..1000
                /\ stored.draw_probability \in 0..1000
                /\ stored.loss_probability \in 0..1000

-----------------------------------------------------------------------------
(* The first row of a team *)

\* C11: on a team's first row, which has no earlier row of that team, every rolling
\* average (gf, ga, gd and win rate, for every window) is the value 0.0, not NaN.
C11_EmptyBufferDefault ==
    ppc = "rolled" =>
        \A i \in 1..Len(matches) :
            EarlierRows(matches, i) = {} =>
                \A c \in RollCols \X WindowSet :
                    /\ ~IsNaN(matches[i].rolling[c])
                    /\ matches[i].rolling[c].num = 0

-----------------------------------------------------------------------------
(* Order of the rows *)

\* The rows of a frame, identified by fixture and side, in frame order
RowOrder(m) == [k \in 1..Len(m) |-> <<m[k].fixture, m[k].team>>]

\* C12: the rating recurrence processes the rows in ascending date, and rows of
\* equal date in the order in which they were ingested; the per-team regrouping of
\* create_rolling_features does not change that order.
C12_StableChronologicalOrder ==
    ppc = "rating" =>
        /\ NonDecreasing([k \in 1..Len(matches) |-> matches[k].date])
        /\ RowOrder(matches) = RowOrder(ingested)

-----------------------------------------------------------------------------
(* Properties of predict_match_probability *)

\* C13: the win, draw and loss probabilities a prediction returns sum to 1.
C13_PredictionSumsToOne ==
    predicted.set => predicted.win + predicted.draw + predicted.loss = RatingScale

-----------------------------------------------------------------------------
(* Properties of the simulation tasks *)

\* The tasks of a match id that have not ended
Running(m) == { t \in DOMAIN tasks : tasks[t].match_id = m /\ tasks[t].pc # "done" }

\* C14: at most one simulation task drives a match id at any time, also when
\* start_live_match is called for an id that is already tracked, and every task
\* that has not ended is the one update_tasks holds for its id.
C14_OneTaskPerMatch ==
    \A m \in MatchIds :
        /\ Cardinality(Running(m)) <= 1
        /\ \A t \in Running(m) : tasks[t].pc # "cancelled" => update_tasks[m] = t

-----------------------------------------------------------------------------
(* Properties of the tracked match over time *)

\* C15: while a match is tracked, no step of the simulation task or of an
\* update_match_score call lowers its minute, home_score or away_score.
C15_NeverDecreasing ==
    [][\A m \in MatchIds :
          (live_matches[m] # 0 /\ live_matches'[m] = live_matches[m]) =>
              /\ objs'[live_matches[m]].minute >= objs[live_matches[m]].minute
              /\ objs'[live_matches[m]].home_score >= objs[live_matches[m]].home_score
              /\ objs'[live_matches[m]].away_score >= objs[live_matches[m]].away_score]_vars

\* An update_match_score call for m has not yet stored its prediction
UpdateInProgress(m) ==
    \/ pending[m] > 0
    \/ \E t \in DOMAIN tasks : tasks[t].match_id = m /\ tasks[t].pc = "updating"

\* C16: whenever match_predictions holds an entry for a tracked match and no update
\* call is in progress, the entry is the prediction formula applied to the match's
\* current home_score, away_score and minute.
C16_PredictionMatchesState ==
    \A m \in MatchIds :
        (live_matches[m] # 0 /\ match_predictions[m].set /\ ~UpdateInProgress(m)) =>
            match_predictions[m] \in LivePredictions(objs[live_matches[m]])

\* C17: every key of match_predictions is a key of live_matches: no prediction is
\* held for a match that is not tracked, in particular after stop_live_match.
C17_PredictionNeverOutlivesMatch ==
    \A m \in MatchIds : match_predictions[m].set => live_matches[m] # 0

-----------------------------------------------------------------------------
(* Properties of update_match_score as a whole *)

\* update_match_score calls for m that have changed the match and not yet stored
\* their prediction
Unfinished(m) == sending[m] + pending[m]

\* C18: every accepted update_match_score call eventually stores its recomputed
\* prediction, however slow a subscriber's send is: the recomputation does not
\* wait for the delivery of the score_update broadcast.
C18_BroadcastNeverBlocks ==
    \A m \in MatchIds : (Unfinished(m) > 0) ~> (Unfinished(m) = 0)

\* C19: an update_match_score call that does not complete leaves home_score,
\* away_score, minute, events and the stored prediction as they were before it.
C19_AllOrNothing ==
    last_update.kind = "raised" =>
        /\ SameMatchState(Updated, last_update.before)
        /\ match_predictions[last_update.match_id] = last_update.prediction

-----------------------------------------------------------------------------
(* Properties of stop_live_match *)

\* Everything the service holds but the record of the last call
ServiceState ==
    <<objs, live_matches, match_predictions, update_tasks, tasks, pending, stopping,
      status_log>>

\* C20: a stop_live_match call leaves its id absent from update_tasks and, when it
\* returns, from live_matches; a call for an id that is absent from both, because it
\* was stopped before or was never started, changes nothing and broadcasts nothing.
C20_StopIdempotent ==
    [][\A m \in MatchIds :
          /\ (last_update'.kind = "stop" /\ last_update'.match_id = m) =>
                update_tasks'[m] = 0
          /\ last_update' = [kind |-> "stopped", match_id |-> m] =>
                (live_matches'[m] = 0 /\ stopping'[m] = 0)
          /\ (last_update'.kind = "stop" /\ last_update'.match_id = m
                /\ update_tasks[m] = 0 /\ live_matches[m] = 0) =>
                (stopping'[m] = 0 /\ UNCHANGED ServiceState)]_vars

\* The second of two stop_live_match calls for a match that was started has returned
C20_Witness ==
    /\ last_update.kind = "stop"
    /\ ~last_update.found
    /\ Len(objs) > 0
    /\ objs[1].status = "finished"
    /\ live_matches[last_update.match_id] = 0
    /\ update_tasks[last_update.match_id] = 0

-----------------------------------------------------------------------------
(* Direction of the rating update *)

\* C21: a row with result W leaves the team's stored rating strictly higher and the
\* opponent's strictly lower (the reverse for L), the expected score lying strictly
\* between 0 and 1; after the first row of a log the winner is above 1500 and the
\* loser below.
C21_EloDirection ==
    [][(ppc = "rating" /\ idx' = idx + 1) =>
         LET row == matches[idx + 1]
             e == Expected(team_ratings[row.opponent], team_ratings[row.team])
             up == team_ratings'[row.team] - team_ratings[row.team]
             down == team_ratings'[row.opponent] - team_ratings[row.opponent]
         IN  /\ 0 < e /\ e < RatingScale
             /\ team_ratings'[row.team] =
                   team_ratings[row.team] + k_factor * (Actual(row.result) - e)
             /\ row.result = "W" => (up > 0 /\ down < 0)
             /\ row.result = "L" => (up < 0 /\ down > 0)
             /\ (idx = 0 /\ row.result = "W") =>
                   /\ team_ratings'[row.team] > initial_rating * RatingScale
                   /\ team_ratings'[row.opponent] < initial_rating * RatingScale
    ]_vars

\* The first row of a log was a win and has been processed
C21_Witness ==
    /\ ppc = "rating"
    /\ idx = 1
    /\ matches[1].result = "W"
    /\ team_ratings[matches[1].team] > initial_rating * RatingScale
    /\ team_ratings[matches[1].opponent] < initial_rating * RatingScale

-----------------------------------------------------------------------------
(* The rating a prediction reads *)

\* The rating store holds team t's rating after every row of the log
StoreRating(t) ==
    IF t \in DOMAIN team_ratings THEN team_ratings[t] ELSE initial_rating * RatingScale

\* C23: the team_rating and opp_rating that predict_match_probability reads
\* equal the rating store's value after all rows of the log that involve the
\* team have been applied (1500 for a team without rows).
C23_ReportedRatingIsCurrent ==
    (ppc = "done" /\ predicted.set) =>
        /\ LastTeamRating(matches, predicted.team) = StoreRating(predicted.team)
        /\ LastTeamRating(matches, predicted.opponent) = StoreRating(predicted.opponent)

-----------------------------------------------------------------------------
(* The HTTP handlers of main.py and of realtime_main.py.  The live match service
   is the one of the module globals: no Redis client, no subscriber, so that no
   await of update_match_score suspends and a handler is one step. *)

Response(endpoint, status, detail) ==
    [endpoint |-> endpoint, status |-> status, detail |-> detail]

\* startup_event: EnhancedPLPredictor("../matches.csv") has returned
StartupEvent ==
    /\ ~serving
    /\ ppc = "done"
    /\ predictor' = TRUE
    /\ serving' = TRUE
    /\ UNCHANGED <<response, published>>
    /\ UNCHANGED <<pvars, lvars, cvars, qvars, evars, mvars>>

\* startup_event: the constructor raised and the except clause logged it
StartupFailed ==
    /\ ~serving
    /\ ppc = "loaded"
    /\ serving' = TRUE
    /\ UNCHANGED <<predictor, response, published>>
    /\ UNCHANGED <<pvars, lvars, cvars, qvars, evars, mvars>>

TeamData(team) == SelectSeq(matches, LAMBDA r : r.team = team)

\* GET /teams
GetTeams ==
    /\ serving
    /\ response' = IF ~predictor THEN Response("/teams", 503, "Model not loaded")
                   ELSE [Response("/teams", 200, "") EXCEPT
                            !.detail = { matches[i].team : i \in DOMAIN matches }]
    /\ UNCHANGED <<predictor, serving, published>>
    /\ UNCHANGED <<pvars, lvars, cvars, qvars, evars, mvars>>

\* team_data.tail(n)
LastRows(s, n) == SubSeq(s, Max(1, Len(s) - n + 1), Len(s))

Wins(s) == Len(SelectSeq(s, LAMBDA r : r.result = "W"))

\* win_prob, loss_prob, draw_prob of POST /predict before normalising and their
\* total, in 1/(20 * len(home_recent) * len(away_recent))
RecentFormProbabilities(home_recent, away_recent) ==
    LET nh == Len(home_recent)
        na == Len(away_recent)
        one == 20 * nh * na
        home_wins == 20 * na * Wins(home_recent)
        away_wins == 20 * nh * Wins(away_recent)
        win == Clip(home_wins + (one \div 10) - (away_wins \div 2) + 3 * (one \div 10),
                    one \div 10, 9 * (one \div 10))
        loss == Clip(away_wins - (home_wins \div 2) + 2 * (one \div 10),
                     one \div 10, 9 * (one \div 10))
        draw == Max(one \div 10, one - win - loss)
    IN  [win |-> win, draw |-> draw, loss |-> loss, total |-> win + draw + loss]

\* The bodies POST /predict of main.py may return for a loaded predictor
PredictionResponses(home_team, away_team) ==
    LET home_data == TeamData(home_team)
        away_data == TeamData(away_team)
    IN  IF home_data # <<>> /\ away_data # <<>>
        THEN LET p == RecentFormProbabilities(LastRows(home_data, 5), LastRows(away_data, 5))
             IN  { [home_team |-> home_team, away_team |-> away_team,
                    win_probability |-> w, draw_probability |-> d, loss_probability |-> l] :
                     w \in Round3(p.win, p.total), d \in Round3(p.draw, p.total),
                     l \in Round3(p.loss, p.total) }
        ELSE { [home_team |-> home_team, away_team |-> away_team,
                win_probability |-> 450, draw_probability |-> 250, loss_probability |-> 300] }

\* The 503 of /predict is raised inside the try block
PredictMatchGuarded(home_team, away_team) ==
    /\ serving
    /\ IF ~predictor
       THEN response' = Response("/predict", 400, "Prediction error")
       ELSE \E body \in PredictionResponses(home_team, away_team) :
               response' = Response("/predict", 200, body)
    /\ UNCHANGED <<predictor, serving, published>>
    /\ UNCHANGED <<pvars, lvars, cvars, qvars, evars, mvars>>

\* POST /predict of main.py with a valid body
PredictMatch(home_team, away_team) ==
    /\ serving
    /\ IF ~predictor
       THEN response' = Response("/predict", 503, "Model not loaded")
       ELSE \E body \in PredictionResponses(home_team, away_team) :
               response' = Response("/predict", 200, body)
    /\ UNCHANGED <<predictor, serving, published>>
    /\ UNCHANGED <<pvars, lvars, cvars, qvars, evars, mvars>>

\* GET /team-stats/{team_name}: the HTTPException(404) is raised inside the try
\* block, whose except Exception clause answers 400
GetTeamStats(team_name) ==
    /\ serving
    /\ response' =
          IF ~predictor THEN Response("/team-stats", 503, "Model not loaded")
          ELSE IF TeamData(team_name) = <<>>
               THEN Response("/team-stats", 400, "Stats error: Team not found")
               ELSE Response("/team-stats", 200,
                             [team |-> team_name,
                              elo_rating |-> LastTeamRating(matches, team_name)])
    /\ UNCHANGED <<predictor, serving, published>>
    /\ UNCHANGED <<pvars, lvars, cvars, qvars, evars, mvars>>

\* POST /live-match/start: start_live_match, then publish MATCH_STARTED
StartLiveMatchRequest(m) ==
    /\ Len(objs) < MaxStarts
    /\ Started(m)
    /\ published' = Append(published, [type |-> "match_started", match_id |-> m])
    /\ response' = Response("/live-match/start", 200, m)
    /\ UNCHANGED <<predictor, serving>>
    /\ UNCHANGED <<qvars, evars, mvars>>

\* POST /live-match/{match_id}/update: update_match_score, then publish
\* MATCH_UPDATED; the HTTPException(404) for an untracked id is raised inside the
\* try block, whose except Exception clause answers 400
UpdateLiveMatch(m, home_score, away_score, minute) ==
    /\ ncalls < MaxCalls
    /\ ncalls' = ncalls + 1
    /\ last_update' = UpdateRecord(objs, m, home_score, away_score, minute)
    /\ IF live_matches[m] = 0
       THEN /\ response' = Response("/live-match/update", 400,
                                    "Failed to update match: Match not found")
            /\ UNCHANGED <<objs, match_predictions, published>>
       ELSE /\ objs' = [objs EXCEPT ![live_matches[m]] =
                           ScoreUpdated(@, home_score, away_score, minute)]
            /\ \E p \in LivePredictions(objs'[live_matches[m]]) :
                  match_predictions' = [match_predictions EXCEPT ![m] = p]
            /\ published' = Append(published,
                  [type |-> "match_updated", match_id |-> m, home_score |-> home_score,
                   away_score |-> away_score, minute |-> minute])
            /\ response' = Response("/live-match/update", 200, "updated")
    /\ UNCHANGED <<live_matches, update_tasks, tasks, pending, stopping, ngoals,
                   status_log, predictor, serving>>
    /\ UNCHANGED <<pvars, cvars, qvars, evars, mvars>>

ApiNext ==
    \/ ~serving /\ CreateRollingFeatures
    \/ ~serving /\ InitTeamStrength
    \/ ~serving /\ RatingRow
    \/ ~serving /\ FinishTeamStrength
    \/ StartupEvent
    \/ StartupFailed
    \/ GetTeams
    \/ \E home_team \in Teams : \E away_team \in Teams : PredictMatch(home_team, away_team)
    \/ \E team_name \in Teams : GetTeamStats(team_name)
    \/ \E m \in MatchIds : StartLiveMatchRequest(m)
    \/ \E m \in MatchIds : \E hs \in ScoreArgs : \E as \in ScoreArgs : \E mn \in MinuteArgs :
          UpdateLiveMatch(m, hs, as, mn)

\* Both applications at start: the log is read, no request was handled
InitApi ==
    /\ \E f \in [1..ApiFixtures -> FixtureChoices(Teams)] :
          /\ f[1][3] = 0
          /\ PipelineStart(BuildLog(f))
    /\ twin = NoTwin
    /\ perturbed = NoRow
    /\ LiveIdle
    /\ Unattached
    /\ RestIdle

SpecApi == InitApi /\ [][ApiNext]_vars

\* C22: while no predictor is loaded, GET /teams and POST /predict with a valid
\* body answer 503 whatever the team names, never 200 or 400.
C22_NoModel503 ==
    (serving /\ ~predictor /\ response.endpoint \in {"/teams", "/predict"}) =>
        (response.status = 503 /\ response.detail = "Model not loaded")

C22_Witness ==
    /\ serving
    /\ ~predictor
    /\ response = Response("/predict", 503, "Model not loaded")

\* C28: POST /live-match/{match_id}/update for an id that is not tracked answers
\* 404 'Match not found' and publishes no MATCH_UPDATED event, and
\* GET /team-stats/{team} for a team without rows answers 404 'Team not found'.
C28_NotFoundIs404 ==
    [][/\ \A m \in MatchIds : \A hs \in ScoreArgs : \A as \in ScoreArgs : \A mn \in MinuteArgs :
            (live_matches[m] = 0 /\ UpdateLiveMatch(m, hs, as, mn)) =>
                /\ response'.status = 404
                /\ response'.detail = "Match not found"
                /\ published' = published
       /\ \A team_name \in Teams :
            (predictor /\ TeamData(team_name) = <<>> /\ GetTeamStats(team_name)) =>
                /\ response'.status = 404
                /\ response'.detail = "Team not found"
      ]_vars

-----------------------------------------------------------------------------
(* The live prediction over the minutes of a match *)

\* a / b <= c / d for positive b and d
FracLeq(a, b, c, d) == a * d <= c * b

\* The stored prediction of match m is the one of its score at its minute, and
\* every later minute gives the leading side at least that probability
LeaderNeverDrops(m) ==
    LET match == objs[live_matches[m]]
        now == RawProbabilities(match.home_score, match.away_score, match.minute)
        stored == match_predictions[m]
    IN  \A later \in match.minute..90 :
          LET then == RawProbabilities(match.home_score, match.away_score, later)
              rounded == LivePredictions([match EXCEPT !.minute = later])
          IN  /\ match.home_score > match.away_score =>
                    /\ stored.win_probability \in Round3(now.win, now.total)
                    /\ FracLeq(now.win, now.total, then.win, then.total)
                    /\ TimeFactor(later) # TimeFactor(match.minute) =>
                          \A p \in rounded : stored.win_probability <= p.win_probability
              /\ match.home_score < match.away_score =>
                    /\ stored.loss_probability \in Round3(now.loss, now.total)
                    /\ FracLeq(now.loss, now.total, then.loss, then.total)
                    /\ TimeFactor(later) # TimeFactor(match.minute) =>
                          \A p \in rounded : stored.loss_probability <= p.loss_probability

\* C24: for a fixed score with the home side leading, the normalised win
\* probability _update_live_predictions computes never decreases as the minute
\* goes from 0 to 90 (the loss probability when the away side leads), also where
\* the draw probability is at its floor of 0.1 and the time factor at its floor.
C24_MonotoneInMinute ==
    \A m \in MatchIds :
        (live_matches[m] # 0 /\ match_predictions[m].set /\ pending[m] = 0) =>
            LeaderNeverDrops(m)

\* a prediction for a two-goal lead at minute 80: later minutes reach both floors
C24_Witness ==
    /\ match_predictions["m1"].set
    /\ pending["m1"] = 0
    /\ objs[1].home_score = objs[1].away_score + 2
    /\ objs[1].minute = 80
    /\ RawProbabilities(objs[1].home_score, objs[1].away_score, 80).draw = 900
    /\ RawProbabilities(objs[1].home_score, objs[1].away_score, 0).draw > 900
    /\ TimeFactor(85) = 9

-----------------------------------------------------------------------------
(* MessageQueue: MATCH_UPDATED events, their handlers, retries and the dead
   letter queue.  A step is the code between two awaits; an await of
   handler.handle is over when the handler has returned or raised. *)

HandlerNames == <<"h1", "h2">>
Outcomes == {"true", "false", "raises"}
Finished == {"processed", "dead", "dropped"}

\* Event(...): retry_count = 0; calls and trues count, per handler, its
\* invocations for the event and those that returned True
NewEvent(payload, pc) ==
    [payload |-> payload, retry_count |-> 0, pc |-> pc, idx |-> 0, success_count |-> 0,
     attempts |-> 0, registered |-> Len(handlers),
     calls |-> [h \in 1..MaxHandlers |-> 0], trues |-> [h \in 1..MaxHandlers |-> 0],
     again |-> [h \in 1..MaxHandlers |-> FALSE]]

\* _handle_event up to its first handler call
Begin(ev) ==
    IF handlers = <<>> THEN [ev EXCEPT !.pc = "dropped"]
    ELSE [ev EXCEPT !.pc = "handling", !.idx = 1, !.success_count = 0, !.attempts = @ + 1]

\* if event.retry_count <= event.max_retries
CanRetryOnceMore(ev) == ev.retry_count <= max_retries

\* if event.retry_count < event.max_retries
CanRetry(ev) == ev.retry_count < max_retries

\* register_handler
RegisterHandler ==
    /\ Len(handlers) < MaxHandlers
    /\ handlers' = Append(handlers, HandlerNames[Len(handlers) + 1])
    /\ UNCHANGED <<queue_redis, queue, events, dead_letter_queue, metrics, cache>>
    /\ UNCHANGED <<pvars, lvars, cvars, avars, evars, mvars>>

\* publish(EventType.MATCH_UPDATED, payload): lpush with a Redis client, a task
\* of its own without
Publish(payload) ==
    /\ Len(events) < MaxEvents
    /\ published' = Append(published, payload)
    /\ events' = Append(events, NewEvent(payload, IF queue_redis THEN "queued" ELSE "task"))
    /\ queue' = IF queue_redis THEN Append(queue, Len(events) + 1) ELSE queue
    /\ metrics' = [metrics EXCEPT !.events_published = @ + 1]
    /\ UNCHANGED <<queue_redis, handlers, dead_letter_queue, cache>>
    /\ UNCHANGED <<predictor, serving, response>>
    /\ UNCHANGED <<pvars, lvars, cvars, evars, mvars>>

\* The task of _process_event_immediately starts to run
StartTask(e) ==
    /\ events[e].pc = "task"
    /\ events' = [events EXCEPT ![e] = Begin(@)]
    /\ UNCHANGED <<queue_redis, handlers, queue, dead_letter_queue, metrics, cache>>
    /\ UNCHANGED <<pvars, lvars, cvars, avars, evars, mvars>>

\* the consumer workers that are inside _handle_event
Busy == { e \in DOMAIN events : events[e].pc \in {"handling", "sleeping"} }

\* _consumer_worker: brpop returns the oldest event to a worker, which handles it
ConsumerWorker(e) ==
    /\ queue # <<>>
    /\ e = Head(queue)
    /\ Cardinality(Busy) < num_consumers
    /\ queue' = Tail(queue)
    /\ events' = [events EXCEPT ![e] = Begin(@)]
    /\ UNCHANGED <<queue_redis, handlers, dead_letter_queue, metrics, cache>>
    /\ UNCHANGED <<pvars, lvars, cvars, avars, evars, mvars>>

\* The event after its handler idx has returned (True or False) or raised
Handled(ev, outcome) ==
    [ev EXCEPT !.calls[ev.idx] = @ + 1,
               !.again[ev.idx] = (@ \/ ev.trues[ev.idx] > 0),
               !.trues[ev.idx] = IF outcome = "true" THEN @ + 1 ELSE @,
               !.success_count = IF outcome = "true" THEN @ + 1 ELSE @,
               !.idx = @ + 1]

\* await handler.handle(event) is over; after the last handler the attempt ends:
\* processed, another attempt after the backoff, or the dead letter queue
HandlerReturns(e, outcome) ==
    /\ events[e].pc = "handling"
    /\ LET ev == Handled(events[e], outcome)
       IN  /\ cache' = IF outcome = "true" THEN ev.payload ELSE cache
           /\ IF ev.idx <= Len(handlers)
              THEN /\ events' = [events EXCEPT ![e] = ev]
                   /\ UNCHANGED <<dead_letter_queue, metrics>>
              ELSE IF ev.success_count > 0
              THEN /\ events' = [events EXCEPT ![e] = [ev EXCEPT !.pc = "processed"]]
                   /\ metrics' = [metrics EXCEPT !.events_processed = @ + 1]
                   /\ UNCHANGED dead_letter_queue
              ELSE IF CanRetry(ev)
              THEN /\ events' = [events EXCEPT ![e] =
                                   [ev EXCEPT !.retry_count = @ + 1, !.pc = "sleeping"]]
                   /\ UNCHANGED <<dead_letter_queue, metrics>>
              ELSE /\ events' = [events EXCEPT ![e] = [ev EXCEPT !.pc = "dead"]]
                   /\ dead_letter_queue' = Append(dead_letter_queue, e)
                   /\ metrics' = [metrics EXCEPT !.events_failed = @ + 1]
    /\ UNCHANGED <<queue_redis, handlers, queue>>
    /\ UNCHANGED <<pvars, lvars, cvars, avars, evars, mvars>>

\* asyncio.sleep(2 ** event.retry_count) is over: await self._handle_event(event)
Backoff(e) ==
    /\ events[e].pc = "sleeping"
    /\ events' = [events EXCEPT ![e] = Begin(@)]
    /\ UNCHANGED <<queue_redis, handlers, queue, dead_letter_queue, metrics, cache>>
    /\ UNCHANGED <<pvars, lvars, cvars, avars, evars, mvars>>

\* The payloads of the MATCH_UPDATED events of POST /live-match/{match_id}/update
Payloads ==
    { [type |-> "match_updated", match_id |-> m, home_score |-> hs, away_score |-> 0,
       minute |-> mn] : m \in MatchIds, hs \in ScoreArgs, mn \in {23} }

EventStep(e) ==
    \/ StartTask(e)
    \/ ConsumerWorker(e)
    \/ \E outcome \in Outcomes : HandlerReturns(e, outcome)
    \/ Backoff(e)

QueueNext ==
    \/ RegisterHandler
    \/ \E payload \in Payloads : Publish(payload)
    \/ \E e \in DOMAIN events : StartTask(e)
    \/ \E e \in DOMAIN events : ConsumerWorker(e)
    \/ \E e \in DOMAIN events : \E outcome \in Outcomes : HandlerReturns(e, outcome)
    \/ \E e \in DOMAIN events : Backoff(e)

\* after initialize(): with the Redis client, or without when the ping failed
InitQueue ==
    /\ PipelineIdle
    /\ LiveIdle
    /\ Unattached
    /\ ApiIdle
    /\ AbIdle
    /\ ManagerIdle
    /\ queue_redis \in BOOLEAN
    /\ handlers = <<>>
    /\ queue = <<>>
    /\ events = <<>>
    /\ dead_letter_queue = <<>>
    /\ metrics = [events_published |-> 0, events_processed |-> 0, events_failed |-> 0]
    /\ cache = NoPayload

SpecQueue == InitQueue /\ [][QueueNext]_vars

\* Every handler call returns or raises, every backoff sleep ends, every task and
\* every worker gets to run
SpecQueueFair == SpecQueue /\ \A e \in 1..MaxEvents : WF_vars(e \in DOMAIN events /\ EventStep(e))

-----------------------------------------------------------------------------
(* Retries and the dead letter queue *)

Occurrences(s, x) == Cardinality({ i \in DOMAIN s : s[i] = x })

EventsAt(pc) == { e \in DOMAIN events : events[e].pc = pc }

ReturnedTrue(e) == \E h \in 1..MaxHandlers : events[e].trues[h] > 0

RetryAccounting ==
    /\ \A e \in DOMAIN events :
          /\ events[e].retry_count <= max_retries
          /\ events[e].attempts <= max_retries + 1
          /\ Occurrences(dead_letter_queue, e) = (IF events[e].pc = "dead" THEN 1 ELSE 0)
          /\ (events[e].pc \in {"processed", "dead"} /\ ~ReturnedTrue(e)) =>
                /\ events[e].pc = "dead"
                /\ events[e].attempts = max_retries + 1
                /\ events[e].retry_count = max_retries
          /\ (events[e].pc \in Finished /\ ReturnedTrue(e)) => events[e].pc = "processed"
          /\ ReturnedTrue(e) => events[e].pc # "dead"
    /\ metrics.events_failed = Cardinality(EventsAt("dead"))
    /\ metrics.events_processed = Cardinality(EventsAt("processed"))
    /\ Len(dead_letter_queue) = Cardinality(EventsAt("dead"))

\* C25: an event with a registered handler for which no handler ever returns True
\* is attempted max_retries + 1 times in all, then put on the dead letter queue
\* once with events_failed raised once; its retry_count never exceeds max_retries
\* and its handling ends.  An event some handler returned True for raises
\* events_processed once and is never put on the dead letter queue.
C25_RetryThenDeadLetter ==
    /\ []RetryAccounting
    /\ \A e \in 1..MaxEvents :
          (e \in DOMAIN events) ~> (e \in DOMAIN events /\ events[e].pc \in Finished)

\* an event was given up after four attempts while another one was processed
C25_Witness ==
    /\ Len(events) = 2
    /\ events[1].pc = "dead"
    /\ events[1].attempts = max_retries + 1
    /\ events[1].calls[1] = max_retries + 1
    /\ events[2].pc = "processed"
    /\ dead_letter_queue = <<1>>
    /\ metrics.events_failed = 1
    /\ metrics.events_processed = 1

\* C26: a handler that returned False or raised for an event is invoked again for
\* it, up to max_retries further times, also when another handler of the event
\* type returned True; a handler that returned True for an event is not invoked
\* again for it.  So once the event is done with, each handler registered when it
\* was published has returned True once, as its last call, or was invoked
\* max_retries + 1 times.
C26_FailedHandlerInvokedAgain ==
    \A e \in DOMAIN events :
        events[e].pc \in {"processed", "dead"} =>
            \A h \in 1..events[e].registered :
                /\ events[e].trues[h] = 0 => events[e].calls[h] = max_retries + 1
                /\ events[e].trues[h] <= 1
                /\ ~events[e].again[h]

\* C27: MATCH_UPDATED events published one after the other for one match id are
\* handled in publication order however the consumer workers and the per-event
\* tasks interleave: once all are processed, the cache entry match:{id} holds the
\* payload of the last one published.
C27_LastUpdateWins ==
    (events # <<>> /\ \A e \in DOMAIN events : events[e].pc = "processed") =>
        cache = published[Len(published)]

-----------------------------------------------------------------------------
(* ABTestingFramework: experiments and their recorded predictions *)

\* _generate_experiment_id
GenerateExperimentId(name) == <<clock, name_hash[name]>>

\* a second passes
Tick ==
    /\ clock < MaxClock
    /\ clock' = clock + 1
    /\ created' = NoCreate
    /\ UNCHANGED <<experiments, results_cache>>
    /\ UNCHANGED <<pvars, lvars, cvars, avars, qvars, mvars>>

\* create_experiment(name, ...)
CreateExperiment(name) ==
    LET experiment_id == GenerateExperimentId(name)
    IN  /\ experiments' = [experiments EXCEPT ![experiment_id] =
                              [set |-> TRUE, id |-> experiment_id, name |-> name,
                               start_date |-> clock, is_active |-> TRUE]]
        /\ created' = [set |-> TRUE, id |-> experiment_id,
                       replaced |-> experiments[experiment_id],
                       predictions |-> results_cache[experiment_id]]
        /\ UNCHANGED <<clock, results_cache>>
        /\ UNCHANGED <<pvars, lvars, cvars, avars, qvars, mvars>>

\* record_prediction(experiment_id, user_id, model_name, prediction)
RecordPrediction(experiment_id, model_name) ==
    /\ experiments[experiment_id].set
    /\ Len(results_cache[experiment_id]) < MaxPredictions
    /\ results_cache' = [results_cache EXCEPT ![experiment_id] =
                            Append(@, [experiment_id |-> experiment_id,
                                       model_name |-> model_name])]
    /\ created' = NoCreate
    /\ UNCHANGED <<clock, experiments>>
    /\ UNCHANGED <<pvars, lvars, cvars, avars, qvars, mvars>>

AbNext ==
    \/ Tick
    \/ \E name \in Names : CreateExperiment(name)
    \/ \E id \in ExperimentIds : \E model_name \in {"model_a", "model_b"} :
          RecordPrediction(id, model_name)

InitAb ==
    /\ PipelineIdle
    /\ LiveIdle
    /\ Unattached
    /\ RestIdle

SpecAb == InitAb /\ [][AbNext]_vars

\* C29: create_experiment returns an id that is not yet a key of experiments: it
\* never replaces an experiment and never attaches recorded predictions to the
\* new one, also for two experiments of one name created within one second.
C29_FreshExperimentId ==
    created.set => (~created.replaced.set /\ created.predictions = <<>>)

-----------------------------------------------------------------------------
(* ConnectionManager: the four maps.  A step is the code between two awaits; a
   send_personal_message call waits in send_text until it returns or raises. *)

ConnectionIds == <<"c1", "c2">>
Topics == {"general", "live_matches"}

\* a dict without / with a key
Without(d, k) == [x \in DOMAIN d \ {k} |-> d[x]]
With(d, k, v) == [x \in DOMAIN d \cup {k} |-> IF x = k THEN v ELSE d[x]]

\* topic_subscribers[topic].add(connection_id), the set created when missing
Added(ts, topic, c) ==
    With(ts, topic, (IF topic \in DOMAIN ts THEN ts[topic] ELSE {}) \cup {c})

\* topic_subscribers[topic].discard(connection_id), the emptied set left in place
DiscardedKeepsKey(ts, topic, c) ==
    IF topic \notin DOMAIN ts THEN ts
    ELSE With(ts, topic, ts[topic] \ {c})

\* topic_subscribers[topic].discard(connection_id); del topic_subscribers[topic]
\* when that leaves the set empty
Discarded(ts, topic, c) ==
    IF topic \notin DOMAIN ts THEN ts
    ELSE IF ts[topic] \ {c} = {} THEN Without(ts, topic)
    ELSE With(ts, topic, ts[topic] \ {c})

RECURSIVE AddedAll(_, _, _)
AddedAll(ts, topics, c) ==
    IF topics = {} THEN ts
    ELSE LET topic == CHOOSE t \in topics : TRUE
         IN  AddedAll(Added(ts, topic, c), topics \ {topic}, c)

RECURSIVE DiscardedAll(_, _, _)
DiscardedAll(ts, topics, c) ==
    IF topics = {} THEN ts
    ELSE LET topic == CHOOSE t \in topics : TRUE
         IN  DiscardedAll(Discarded(ts, topic, c), topics \ {topic}, c)

\* connect(websocket, user_id, topics) once websocket.accept() has returned, up
\* to the send of the welcome message
ManagerConnect(topics) ==
    /\ issued < MaxConnections
    /\ LET connection_id == ConnectionIds[issued + 1]
       IN  /\ issued' = issued + 1
           /\ active_connections' = active_connections \cup {connection_id}
           /\ user_subscriptions' = With(user_subscriptions, connection_id, topics)
           /\ topic_subscriber_sets' = AddedAll(topic_subscriber_sets, topics, connection_id)
           /\ connection_metadata' = With(connection_metadata, connection_id,
                                          [user_id |-> "u", topics |-> topics])
           /\ in_flight' = in_flight \cup {connection_id}
    /\ UNCHANGED broadcasting
    /\ UNCHANGED <<pvars, lvars, cvars, avars, qvars, evars>>

\* What disconnect(connection_id) leaves of the four maps
Disconnected(c) ==
    IF c \notin active_connections
    THEN <<active_connections, user_subscriptions, topic_subscriber_sets, connection_metadata>>
    ELSE << active_connections \ {c},
            Without(user_subscriptions, c),
            IF c \in DOMAIN user_subscriptions
            THEN DiscardedAll(topic_subscriber_sets, user_subscriptions[c], c)
            ELSE topic_subscriber_sets,
            Without(connection_metadata, c) >>

SetMaps(maps) ==
    /\ active_connections' = maps[1]
    /\ user_subscriptions' = maps[2]
    /\ topic_subscriber_sets' = maps[3]
    /\ connection_metadata' = maps[4]

\* disconnect(connection_id)
Disconnect(c) ==
    /\ SetMaps(Disconnected(c))
    /\ UNCHANGED <<issued, in_flight, broadcasting>>
    /\ UNCHANGED <<pvars, lvars, cvars, avars, qvars, evars>>

\* send_personal_message(message, connection_id) up to its send_text
SendPersonalMessage(c) ==
    /\ c \in active_connections
    /\ c \notin in_flight
    /\ in_flight' = in_flight \cup {c}
    /\ UNCHANGED <<active_connections, user_subscriptions, topic_subscriber_sets,
                   connection_metadata, issued, broadcasting>>
    /\ UNCHANGED <<pvars, lvars, cvars, avars, qvars, evars>>

\* send_text returned: last_activity is updated
SendTextReturns(c) ==
    /\ c \in in_flight
    /\ in_flight' = in_flight \ {c}
    /\ UNCHANGED <<active_connections, user_subscriptions, topic_subscriber_sets,
                   connection_metadata, issued, broadcasting>>
    /\ UNCHANGED <<pvars, lvars, cvars, avars, qvars, evars>>

\* send_text raised: the except clause disconnects the connection
SendTextRaises(c) ==
    /\ c \in in_flight
    /\ in_flight' = in_flight \ {c}
    /\ SetMaps(Disconnected(c))
    /\ UNCHANGED <<issued, broadcasting>>
    /\ UNCHANGED <<pvars, lvars, cvars, avars, qvars, evars>>

\* subscribe_to_topic(connection_id, topic) up to the send of its message
SubscribeToTopic(c, topic) ==
    /\ c \in active_connections
    /\ user_subscriptions' =
          With(user_subscriptions, c,
               (IF c \in DOMAIN user_subscriptions THEN user_subscriptions[c] ELSE {})
                   \cup {topic})
    /\ topic_subscriber_sets' = Added(topic_subscriber_sets, topic, c)
    /\ connection_metadata' =
          IF c \in DOMAIN connection_metadata
          THEN [connection_metadata EXCEPT ![c].topics = @ \cup {topic}]
          ELSE connection_metadata
    /\ in_flight' = in_flight \cup {c}
    /\ UNCHANGED <<active_connections, issued, broadcasting>>
    /\ UNCHANGED <<pvars, lvars, cvars, avars, qvars, evars>>

\* unsubscribe_from_topic(connection_id, topic) up to the send of its message
UnsubscribeFromTopic(c, topic) ==
    /\ c \in active_connections
    /\ user_subscriptions' =
          IF c \in DOMAIN user_subscriptions
          THEN [user_subscriptions EXCEPT ![c] = @ \ {topic}]
          ELSE user_subscriptions
    /\ topic_subscriber_sets' = Discarded(topic_subscriber_sets, topic, c)
    /\ in_flight' = in_flight \cup {c}
    /\ UNCHANGED <<active_connections, connection_metadata, issued, broadcasting>>
    /\ UNCHANGED <<pvars, lvars, cvars, avars, qvars, evars>>

\* broadcast_to_topic(message, topic): the copy of the subscribers is taken
BroadcastToTopic(topic) ==
    /\ broadcasting = {}
    /\ topic \in DOMAIN topic_subscriber_sets
    /\ broadcasting' = topic_subscriber_sets[topic]
    /\ UNCHANGED <<active_connections, user_subscriptions, topic_subscriber_sets,
                   connection_metadata, issued, in_flight>>
    /\ UNCHANGED <<pvars, lvars, cvars, avars, qvars, evars>>

\* broadcast_to_topic: send_personal_message for the next connection of the copy,
\* which does nothing for a connection that is no longer active
BroadcastNext(c) ==
    /\ c \in broadcasting
    /\ broadcasting' = broadcasting \ {c}
    /\ in_flight' = IF c \in active_connections THEN in_flight \cup {c} ELSE in_flight
    /\ UNCHANGED <<active_connections, user_subscriptions, topic_subscriber_sets,
                   connection_metadata, issued>>
    /\ UNCHANGED <<pvars, lvars, cvars, avars, qvars, evars>>

Connected == { ConnectionIds[i] : i \in 1..MaxConnections }

ManagerNext ==
    \/ \E topics \in SUBSET Topics : ManagerConnect(topics)
    \/ \E c \in Connected : Disconnect(c)
    \/ \E c \in Connected : SendPersonalMessage(c)
    \/ \E c \in Connected : SendTextReturns(c)
    \/ \E c \in Connected : SendTextRaises(c)
    \/ \E c \in Connected : \E topic \in Topics : SubscribeToTopic(c, topic)
    \/ \E c \in Connected : \E topic \in Topics : UnsubscribeFromTopic(c, topic)
    \/ \E topic \in Topics : BroadcastToTopic(topic)
    \/ \E c \in Connected : BroadcastNext(c)

InitManager ==
    /\ PipelineIdle
    /\ LiveIdle
    /\ Unattached
    /\ RestIdle

SpecManager == InitManager /\ [][ManagerNext]_vars

SubscribersOf(topic) ==
    IF topic \in DOMAIN topic_subscriber_sets THEN topic_subscriber_sets[topic] ELSE {}

TopicsOf(c) ==
    IF c \in DOMAIN user_subscriptions THEN user_subscriptions[c] ELSE {}

\* C30: after any sequence of connect, disconnect, subscribe_to_topic,
\* unsubscribe_from_topic, send_personal_message and broadcast_to_topic calls,
\* sends that fail included, connection c is in topic_subscribers[t] exactly when
\* t is in user_subscriptions[c]; every connection of either map is active;
\* active_connections, user_subscriptions and connection_metadata have the same
\* keys; and no subscriber set of topic_subscribers is empty.
C30_SubscriptionMapsConsistent ==
    /\ \A c \in Connected : \A topic \in Topics :
          (c \in SubscribersOf(topic)) <=> (topic \in TopicsOf(c))
    /\ DOMAIN topic_subscriber_sets \subseteq Topics
    /\ \A topic \in DOMAIN topic_subscriber_sets :
          /\ topic_subscriber_sets[topic] \subseteq active_connections
          /\ topic_subscriber_sets[topic] # {}
    /\ DOMAIN user_subscriptions = active_connections
    /\ DOMAIN connection_metadata = active_connections

\* the first connection is gone again (disconnect, or a send that failed) and the
\* second one, which has left a topic, is the only subscriber that remains
C30_Witness ==
    /\ issued = 2
    /\ active_connections = {"c2"}
    /\ in_flight = {}
    /\ DOMAIN topic_subscriber_sets = {"general"}
    /\ topic_subscriber_sets["general"] = {"c2"}
    /\ connection_metadata["c2"].topics = Topics
    /\ user_subscriptions["c2"] = {"general"}
=============================================================================
